---- MODULE Spec2Model ----
(***************************************************************************)
(* Model of the image-inference model registry (package inference):        *)
(* the catalog i.models guarded by i.mutex, the per-record refCount and    *)
(* status, model creation through the trainer, deletion, description and   *)
(* inference.  One process ("main") runs New/init; the request threads     *)
(* call the public methods concurrently once New has returned.             *)
(***************************************************************************)
EXTENDS Integers, Sequences, FiniteSets, TLC

\* ------------------------------------------------------------------ bounds
\* longest score vector and longest labels file the ranking is tried on
MaxLen == 6

\* iModel values alive at one time (reachable from i.models or from a local)
MaxRecs == 3

\* ------------------------------------------------------- program constants
modelStatusReady == 0
modelStatusRun == 1
binaryClass == "binary"
multiClass == "multi"

\* ------------------------------------------------------------ model values
Threads == {"t1", "t2"}
Main == "main"
Procs == Threads \cup {Main}

\* model names requests and configuration files use; "" is the empty name
Names == {"default", "a"}
Keys == Names \cup {""}

\* path.Join(i.modelsPath, fmt.Sprintf("%s-%s", newModel, uuid[:8]))
ModelPath(n, s) == <<n, s>>
UserPath == <<"user", 0>>
NoPath == <<"", 0>>
\* the values of uuid.New().String()[:8] a CreateModel call may draw
Uuids == {1}
Paths == {ModelPath(n, s) : n \in Keys, s \in Uuids} \cup {UserPath}

\* ioutil.ReadDir returns the sub-directories sorted by file name
ScanOrder == <<ModelPath("a", 1)>>

\* what loadModel finds at a path: nothing (no directory), a directory that
\* cannot be loaded (no config.yaml, bad yaml, engine or labels error), or a
\* loadable directory whose config.yaml declares name and classification
Absent == [kind |-> "absent", name |-> "", cls |-> ""]
Bad == [kind |-> "bad", name |-> "", cls |-> ""]
Cfg(n, c) == [kind |-> "cfg", name |-> n, cls |-> c]

\* the zero value of modelConfig
NoCfg == [name |-> "", cls |-> ""]

\* the fields of GetModel's map that loadModel and the status feed
NoView == [status |-> "", classification |-> "", inputShape |-> FALSE,
           nrLables |-> FALSE]

\* scores are counted in tenths: 5 is the 0.5 of classifyBinary
half == 5
Scores == {3, 5, 7}
\* the k of classifyMulti when the caller gave none
defaultK == 5

InferLabel(prob, label) == [Prob |-> prob, Label |-> label]
\* the zero value of InferLabel
ZeroLabel == InferLabel(0, 0)
\* a ranking that returned nothing
NoInfers == [err |-> "", infers |-> <<>>]
\* a ranking that ended in a run-time panic
Panic == [err |-> "panic", infers |-> <<>>]

VARIABLES
    models,         \* i.models: key -> heap index of the *iModel, 0 = no entry
    heap,           \* the iModel values the pointers refer to
    disk,           \* the model directories on disk: path -> it exists
    mutex,          \* i.mutex: [w: the writer or "none", r: set of readers]
    userModelPath,  \* i.userModelPath (NoPath = "")
    scanIdx,        \* position of loadModels in the directory listing
    pc,             \* position of each process in the method it runs
    op,             \* the method each process runs ("" = none)
    initCreates,    \* CreateModel calls init has made
    model,          \* the name argument of the running method
    m,              \* the method's local *iModel (0 = nil)
    result,         \* what the method returned
    incs,           \* atomic.AddInt32(&m.refCount, 1) done by the running call
    decs,           \* atomic.AddInt32(&m.refCount, -1) done by the running call
    ran,            \* the running Infer call reached m.infer
    view,           \* the map GetModel built
    listed,         \* the slice GetModels built (as a set)
    probs,          \* classifyMulti/classifyBinary: the scores of the engine
    labels,         \* m.labels handed to the ranking
    topK,           \* the k argument of Infer
    infers,         \* what the ranking returned: [err, infers]
    rpc             \* which ranking function has run ("off": none is running)

vars == <<models, heap, disk, mutex, userModelPath, scanIdx, pc, op,
          initCreates, model, m,
          result, incs, decs, ran, view, listed,
          probs, labels, topK, infers, rpc>>

\* the arguments and the result of the ranking: no registry method writes them
rankVars == <<probs, labels, topK, infers, rpc>>

locals == <<op, initCreates, model, m, result, incs, decs, ran, view, listed>>

\* ---------------------------------------------------------- pure functions

getNewModel(modelName, modelPath) ==
    [name |-> modelName, modelPath |-> modelPath, status |-> modelStatusReady,
     refCount |-> 0, cfg |-> NoCfg, tfModel |-> FALSE, labels |-> FALSE]

\* an iModel slot of the heap that holds no live value
Free == getNewModel("", NoPath)

\* the configurations the model directories of this world declare
Configs == {Cfg("default", binaryClass), Cfg("a", multiClass),
            Cfg("a", "other"), Cfg("", multiClass)}

\* what the files under a path can hold when loadModel reads them
DirContents(dsk, path) ==
    IF path \in DOMAIN dsk /\ dsk[path] THEN {Bad} \cup Configs ELSE {Absent}

\* loadModel without its "Not matched model name" check
loadModelFailsAnyName(r, c) == c.kind # "cfg"
\* loadModel fails: config unreadable, name mismatch, engine or labels error
loadModelFails(r, c) ==
    \/ c.kind # "cfg"
    \/ r.name # "" /\ r.name # c.name

\* a loadModel that assigns m.name before the step that fails
loadFailedRenamed(r, c) ==
    IF c.kind = "cfg" THEN [r EXCEPT !.name = c.name] ELSE r
\* the record after a loadModel that returned an error: every return of an
\* error precedes the first assignment to m
loadFailed(r, c) == r

\* the assignments that end loadModel, in program order
\* loadModel that sets m.status first instead of last
loadSetCfgRunning(r, c) == [r EXCEPT !.cfg = [name |-> c.name, cls |-> c.cls],
                                     !.name = c.name,
                                     !.status = modelStatusRun]
loadSetCfg(r, c) == [r EXCEPT !.cfg = [name |-> c.name, cls |-> c.cls],
                              !.name = c.name]
loadSetEngine(r) == [r EXCEPT !.tfModel = TRUE]
loadSetLabels(r) == [r EXCEPT !.labels = TRUE]
\* loadModel that forgets m.status = modelStatusRun
loadSetStatusSkipped(r) == r
loadSetStatus(r) == [r EXCEPT !.status = modelStatusRun]
loadModel(r, c) == loadSetStatus(loadSetLabels(loadSetEngine(loadSetCfg(r, c))))

\* addModel without its "Empty model name" check
addModelErrsNoEmpty(ms, hp, newM) ==
    {"DuplicatedModel" : k \in {k \in Keys : ms[k] # 0 /\
                (k = newM.name \/ hp[ms[k]].name = newM.name)}}
    \cup
    {"DuplicatedPath" : k \in {k \in Keys : ms[k] # 0 /\
                ~(k = newM.name \/ hp[ms[k]].name = newM.name) /\
                hp[ms[k]].modelPath = newM.modelPath}}

\* addModel without its "Duplicated model path" branch
addModelErrsNoPath(ms, hp, newM) ==
    IF newM.name = "" THEN {"EmptyName"}
    ELSE {"DuplicatedModel" : k \in {k \in Keys : ms[k] # 0 /\
                (k = newM.name \/ hp[ms[k]].name = newM.name)}}

\* addModel: the errors the loop over i.models can return (map iteration
\* order is random, so any offending entry may be the first one met)
addModelErrs(ms, hp, newM) ==
    IF newM.name = "" THEN {"EmptyName"}
    ELSE {"DuplicatedModel" : k \in {k \in Keys : ms[k] # 0 /\
                (k = newM.name \/ hp[ms[k]].name = newM.name)}}
         \cup
         {"DuplicatedPath" : k \in {k \in Keys : ms[k] # 0 /\
                ~(k = newM.name \/ hp[ms[k]].name = newM.name) /\
                hp[ms[k]].modelPath = newM.modelPath}}

\* addModel's insert: i.models[newM.name] = newM
addModel(ms, newM, id) == [ms EXCEPT ![newM.name] = id]

\* delModel's guards
delModelMissing(ms, key) == ms[key] = 0
\* delModel without its "Currently in use" check
delModelBusyNever(r) == FALSE
delModelBusy(r) == r.refCount > 0

\* os.RemoveAll(path); it may fail, and then the directory stays
RemoveAll(dsk, p, rmOk) == IF rmOk THEN [dsk EXCEPT ![p] = FALSE] ELSE dsk

\* delete(i.models, name)
mapDelete(ms, name) == [ms EXCEPT ![name] = 0]

\* delModelUncond that forgets delete(i.models, delM.name)
delModelUncondKeeps(ms, delM) == ms
\* delModelUncond: the catalog it leaves
delModelUncond(ms, delM) == mapDelete(ms, delM.name)

\* getModel that returns the record without counting the reference
getModelNoCount(r) == r
\* putModel that does not give the reference back
putModelNoCount(r) == r
\* getModel / putModel on the record
getModel(r) == [r EXCEPT !.refCount = @ + 1]
putModel(r) == [r EXCEPT !.refCount = @ - 1]

\* len(i.models)
lenModels(ms) == Cardinality({k \in Keys : ms[k] # 0})

\* the smallest free slot of the heap (0: none)
newSlot(hp) ==
    IF \E i \in 1..MaxRecs : hp[i] = Free
    THEN CHOOSE i \in 1..MaxRecs :
            hp[i] = Free /\ \A j \in 1..(i - 1) : hp[j] # Free
    ELSE 0

\* garbage collection: an iModel no map entry and no local points to is gone
collect(hp, ms, loc) ==
    [i \in 1..MaxRecs |->
       IF (\E k \in Keys : ms[k] = i) \/ (\E p \in Procs : loc[p] = i)
       THEN hp[i] ELSE Free]

\* --------------------------------------------------------------- ranking

\* sortByProb.Less and sortByProb.Swap (indices from 1)
Less(s, i, j) == s[i].Prob > s[j].Prob
Swap(s, i, j) == [s EXCEPT ![i] = s[j], ![j] = s[i]]

\* sort.Sort on fewer than 12 elements: one pass of gap 6, then insertionSort
RECURSIVE shellPass(_, _)
shellPass(s, i) ==
    IF i > Len(s) THEN s
    ELSE shellPass(IF Less(s, i, i - 6) THEN Swap(s, i, i - 6) ELSE s, i + 1)

\* for j := i; j > a && Less(j, j-1); j-- { Swap(j, j-1) }
RECURSIVE sink(_, _)
sink(s, j) ==
    IF j > 1 /\ Less(s, j, j - 1) THEN sink(Swap(s, j, j - 1), j - 1) ELSE s

RECURSIVE insertionSort(_, _)
insertionSort(s, i) ==
    IF i > Len(s) THEN s ELSE insertionSort(sink(s, i), i + 1)

sortSort(s) == IF Len(s) > 1 THEN insertionSort(shellPass(s, 7), 2) ELSE s

\* the loop over probs: pair score idx with label idx, stop at len(labels)
RECURSIVE pairUp(_, _, _)
pairUp(ps, ls, idx) ==
    IF idx > Len(ps) \/ idx > Len(ls) THEN <<>>
    ELSE <<InferLabel(ps[idx], ls[idx])>> \o pairUp(ps, ls, idx + 1)

\* the capacity append leaves after n appends to a nil slice (it doubles)
RECURSIVE appendCap(_)
appendCap(n) ==
    IF n = 0 THEN 0
    ELSE IF appendCap(n - 1) >= n THEN appendCap(n - 1)
    ELSE IF appendCap(n - 1) = 0 THEN 1 ELSE 2 * appendCap(n - 1)

\* s[:n] of a slice with capacity c: the elements past len(s) are zero
\* values, and n > c panics
sliceTo(s, c, n) ==
    IF n > c THEN Panic
    ELSE [err |-> "",
          infers |-> [i \in 1..n |-> IF i <= Len(s) THEN s[i] ELSE ZeroLabel]]

kOrDefault(kk) == IF kk <= 0 THEN defaultK ELSE kk

\* classifyMulti without the clamp of k
multiClampNone(kk, n) == kk
\* if k > len(infers) { k = len(infers) }
multiClamp(kk, n) == IF kk > n THEN n ELSE kk

classifyMulti(ps, ls, kk) ==
    LET infs == sortSort(pairUp(ps, ls, 1))
    IN sliceTo(infs, appendCap(Len(infs)),
               multiClamp(kOrDefault(kk), Len(infs)))

\* classifyBinary with > in place of >=
binaryIdxStrict(prob) == IF prob > half THEN 1 ELSE 0
\* idx = 0; if prob >= 0.5 { idx = 1 }
binaryIdx(prob) == IF prob >= half THEN 1 ELSE 0

classifyBinary(prob, ls) ==
    IF binaryIdx(prob) + 1 > Len(ls) THEN Panic
    ELSE [err |-> "",
          infers |-> <<InferLabel(prob, ls[binaryIdx(prob) + 1])>>]

\* the ranking inside Infer of the simplified implementation
simpleInfer(ps, ls, kk) ==
    LET infs == sortSort(pairUp(ps, ls, 1))
    IN sliceTo(infs, appendCap(Len(infs)), kOrDefault(kk))

\* ------------------------------------------------------------------- Init

Init ==
    /\ models = [k \in Keys |-> 0]
    /\ heap = [i \in 1..MaxRecs |-> Free]
    /\ userModelPath \in {NoPath, UserPath}
    /\ \E d1 \in BOOLEAN :
         disk = [p \in Paths |->
                   IF p = ScanOrder[1] THEN d1
                   ELSE p = UserPath /\ userModelPath # NoPath]
    /\ mutex = [w |-> "none", r |-> {}]
    /\ scanIdx = 1
    /\ pc = [p \in Procs |-> IF p = Main THEN "scan" ELSE "idle"]
    /\ op = [p \in Procs |-> ""]
    /\ initCreates = 0
    /\ model = [p \in Procs |-> ""]
    /\ m = [p \in Procs |-> 0]
    /\ result = [p \in Procs |-> ""]
    /\ incs = [p \in Procs |-> 0]
    /\ decs = [p \in Procs |-> 0]
    /\ ran = [p \in Procs |-> FALSE]
    /\ view = [p \in Procs |-> NoView]
    /\ listed = [p \in Procs |-> {}]
    /\ probs = <<>> /\ labels = <<>> /\ topK = 0
    /\ infers = NoInfers /\ rpc = "off"

\* ------------------------------------------------------------ i.mutex

CanLock(mu) == mu.w = "none" /\ mu.r = {}
Lock(mu, p) == [mu EXCEPT !.w = p]
\* an exit that forgets i.mutex.Unlock()
UnlockForgotten(mu, p) == mu
Unlock(mu, p) == [mu EXCEPT !.w = "none"]
CanRLock(mu) == mu.w = "none"
RLock(mu, p) == [mu EXCEPT !.r = @ \cup {p}]
\* an exit that forgets i.mutex.RUnlock()
RUnlockForgotten(mu, p) == mu
RUnlock(mu, p) == [mu EXCEPT !.r = @ \ {p}]

\* refCount changes a step makes, as the running call's tally
Tally(p, before, after) ==
    /\ incs' = [incs EXCEPT ![p] =
                  @ + (IF after > before THEN after - before ELSE 0)]
    /\ decs' = [decs EXCEPT ![p] =
                  @ + (IF after < before THEN before - after ELSE 0)]

\* ---------------------------------------------------- New / init / loadModels

\* one iteration of the loop over ioutil.ReadDir(i.modelsPath)
ScanDir(c, rmOk) ==
    /\ pc[Main] = "scan"
    /\ scanIdx <= Len(ScanOrder)
    /\ LET d == ScanOrder[scanIdx]
           newM == getNewModel("", d)
       IN /\ c \in DirContents(disk, d)
          /\ IF ~disk[d]
             THEN UNCHANGED <<models, heap, disk>>
             ELSE IF loadModelFails(newM, c)
             THEN /\ disk' = RemoveAll(disk, newM.modelPath, rmOk)
                  /\ models' = delModelUncond(models, newM)
                  /\ heap' = heap
             ELSE LET ld == loadModel(newM, c)
                  IN IF addModelErrs(models, heap, ld) = {}
                     THEN /\ heap' = [heap EXCEPT ![newSlot(heap)] = ld]
                          /\ models' = addModel(models, ld, newSlot(heap))
                          /\ disk' = disk
                     ELSE UNCHANGED <<models, heap, disk>>
    /\ scanIdx' = scanIdx + 1
    /\ UNCHANGED <<mutex, userModelPath, rankVars, pc, locals>>

\* the end of the loop and the user model
ScanUser(c) ==
    /\ pc[Main] = "scan"
    /\ scanIdx > Len(ScanOrder)
    /\ c \in DirContents(disk, userModelPath)
    /\ LET newM == getNewModel("", userModelPath)
       IN IF userModelPath = NoPath \/ loadModelFails(newM, c)
          THEN UNCHANGED <<models, heap>>
          ELSE LET ld == loadModel(newM, c)
               IN IF addModelErrs(models, heap, ld) = {}
                  THEN /\ heap' = [heap EXCEPT ![newSlot(heap)] = ld]
                       /\ models' = addModel(models, ld, newSlot(heap))
                  ELSE UNCHANGED <<models, heap>>
    /\ pc' = [pc EXCEPT ![Main] = "init"]
    /\ UNCHANGED <<disk, mutex, userModelPath, rankVars, scanIdx, locals>>

\* init: models were loaded, New returns nil
InitLoaded ==
    /\ pc[Main] = "init"
    /\ lenModels(models) # 0
    /\ pc' = [pc EXCEPT ![Main] = "serving"]
    /\ UNCHANGED <<models, heap, disk, mutex, userModelPath, rankVars, scanIdx, locals>>

\* init: what CreateModel("default", ...) returned decides New's error
InitReturn ==
    /\ op' = [op EXCEPT ![Main] = ""]
    /\ UNCHANGED initCreates
    /\ pc[Main] = "ret"
    /\ pc' = [pc EXCEPT ![Main] = IF result[Main] = "ok" THEN "serving"
                                                         ELSE "failed"]
    /\ model' = [model EXCEPT ![Main] = ""]
    /\ result' = [result EXCEPT ![Main] = ""]
    /\ incs' = [incs EXCEPT ![Main] = 0]
    /\ decs' = [decs EXCEPT ![Main] = 0]
    /\ UNCHANGED <<models, heap, disk, mutex, userModelPath, rankVars, scanIdx, m,
                   ran, view, listed>>

\* ------------------------------------------------------------- CreateModel

\* who may call CreateModel(n, ...): init for "default" when nothing loaded,
\* a request thread once New has returned
MayCreate(p, n) ==
    IF p = Main THEN pc[p] = "init" /\ lenModels(models) = 0 /\ n = "default"
                ELSE pc[p] = "idle" /\ pc[Main] = "serving"

\* CreateModel without the lease on the slot it reserved
createLeaseMissing(r) == r
\* the lease CreateModel takes on the slot it reserved: i.getModel(newModel)
createLease(r) == getModel(r)

\* Lock; addModel(m); getModel(newModel); Unlock.  s is the uuid drawn
createReserve(p, n, s, mu) ==
    /\ op' = [op EXCEPT ![p] = "Create"]
    /\ model' = [model EXCEPT ![p] = n]
    /\ LET newM == getNewModel(n, ModelPath(n, s))
           errs == addModelErrs(models, heap, newM)
       IN IF errs # {}
          THEN /\ \E e \in errs : result' = [result EXCEPT ![p] = e]
               /\ pc' = [pc EXCEPT ![p] = "ret"]
               /\ UNCHANGED <<models, heap, m, incs, decs>>
          ELSE LET ms1 == addModel(models, newM, newSlot(heap))
                   hp1 == [heap EXCEPT ![newSlot(heap)] = newM]
                   got == ms1[n]
               IN /\ newSlot(heap) # 0
                  /\ models' = ms1
                  /\ heap' = IF got = 0 THEN hp1
                             ELSE [hp1 EXCEPT ![got] = createLease(@)]
                  /\ Tally(p, IF got = 0 THEN 0 ELSE hp1[got].refCount,
                           IF got = 0 THEN 0 ELSE createLease(hp1[got]).refCount)
                  /\ m' = [m EXCEPT ![p] = newSlot(heap)]
                  /\ pc' = [pc EXCEPT ![p] = "cr_post"]
                  /\ UNCHANGED result
    /\ mutex' = Unlock(mu, p)
    /\ UNCHANGED <<disk, userModelPath, rankVars, scanIdx, ran, view, listed>>

\* Lock; addModel(m); getModel(newModel); Unlock, as one step
CreateCall(p, n, s) ==
    /\ initCreates' = IF p = Main THEN initCreates + 1 ELSE initCreates
    /\ MayCreate(p, n)
    /\ CanLock(mutex)
    /\ createReserve(p, n, s, Lock(mutex, p))

\* http.Post to the trainer and the decoding of its response; the trainer
\* may have written the model directory whatever it answers
CreatePost(p, outcome, wrote) ==
    /\ UNCHANGED <<op, initCreates>>
    /\ pc[p] = "cr_post"
    /\ disk' = IF wrote THEN [disk EXCEPT ![heap[m[p]].modelPath] = TRUE]
               ELSE disk
    /\ IF outcome # "ok"
       THEN /\ pc' = [pc EXCEPT ![p] = "cr_rb"]
            /\ result' = [result EXCEPT ![p] = outcome]
       ELSE /\ pc' = [pc EXCEPT ![p] = "cr_load"]
            /\ UNCHANGED result
    /\ UNCHANGED <<models, heap, mutex, userModelPath, rankVars, scanIdx, model, m,
                   incs, decs, ran, view, listed>>

\* loadModel(m): c is what it reads under m.modelPath
CreateLoad(p, c) ==
    /\ UNCHANGED <<op, initCreates>>
    /\ pc[p] = "cr_load"
    /\ c \in DirContents(disk, heap[m[p]].modelPath)
    /\ IF loadModelFails(heap[m[p]], c)
       THEN /\ pc' = [pc EXCEPT ![p] = "cr_rb"]
            /\ result' = [result EXCEPT ![p] = "LoadFailure"]
            /\ heap' = [heap EXCEPT ![m[p]] = loadFailed(@, c)]
       ELSE /\ pc' = [pc EXCEPT ![p] = "cr_put"]
            /\ heap' = [heap EXCEPT ![m[p]] = loadModel(@, c)]
            /\ UNCHANGED result
    /\ UNCHANGED <<models, disk, mutex, userModelPath, rankVars, scanIdx, model, m,
                   incs, decs, ran, view, listed>>

\* i.putModel(m); return response, nil
CreateRelease(p) ==
    /\ UNCHANGED <<op, initCreates>>
    /\ pc[p] = "cr_put"
    /\ m' = [m EXCEPT ![p] = 0]
    /\ heap' = collect([heap EXCEPT ![m[p]] = putModel(@)], models, m')
    /\ Tally(p, heap[m[p]].refCount, putModel(heap[m[p]]).refCount)
    /\ result' = [result EXCEPT ![p] = "ok"]
    /\ pc' = [pc EXCEPT ![p] = "ret"]
    /\ UNCHANGED <<models, disk, mutex, userModelPath, rankVars, scanIdx, model,
                   ran, view, listed>>

\* Lock; i.delModelUncond(m); Unlock; return nil, err
createRollback(p, rmOk, at, mu) ==
    /\ UNCHANGED <<op, initCreates>>
    /\ pc[p] = at
    /\ disk' = RemoveAll(disk, heap[m[p]].modelPath, rmOk)
    /\ models' = delModelUncond(models, heap[m[p]])
    /\ m' = [m EXCEPT ![p] = 0]
    /\ heap' = collect(heap, models', m')
    /\ mutex' = Unlock(mu, p)
    /\ pc' = [pc EXCEPT ![p] = "ret"]
    /\ UNCHANGED <<userModelPath, rankVars, scanIdx, model, result, incs, decs,
                   ran, view, listed>>

\* the rollback as one step
CreateRollback(p, rmOk) ==
    /\ CanLock(mutex)
    /\ createRollback(p, rmOk, "cr_rb", Lock(mutex, p))

\* ------------------------------------------------------------- DeleteModel

\* Lock; delModel(model); the deferred Unlock
deleteModel(p, n, rmOk, mu) ==
    /\ op' = [op EXCEPT ![p] = "Delete"]
    /\ UNCHANGED initCreates
    /\ model' = [model EXCEPT ![p] = n]
    /\ IF delModelMissing(models, n)
       THEN /\ result' = [result EXCEPT ![p] = "NotFound"]
            /\ UNCHANGED <<models, disk>>
       ELSE IF delModelBusy(heap[models[n]])
       THEN /\ result' = [result EXCEPT ![p] = "Busy"]
            /\ UNCHANGED <<models, disk>>
       ELSE IF ~rmOk
       THEN /\ result' = [result EXCEPT ![p] = "RemoveError"]
            /\ UNCHANGED <<models, disk>>
       ELSE /\ disk' = RemoveAll(disk, heap[models[n]].modelPath, rmOk)
            /\ models' = mapDelete(models, heap[models[n]].name)
            /\ result' = [result EXCEPT ![p] = "ok"]
    /\ heap' = collect(heap, models', m)
    /\ mutex' = Unlock(mu, p)
    /\ pc' = [pc EXCEPT ![p] = "ret"]
    /\ UNCHANGED <<userModelPath, rankVars, scanIdx, m, incs, decs, ran, view,
                   listed>>

\* DeleteModel as one step
DeleteModel(p, n, rmOk) ==
    /\ pc[p] = "idle" /\ pc[Main] = "serving"
    /\ CanLock(mutex)
    /\ deleteModel(p, n, rmOk, Lock(mutex, p))

\* --------------------------------------------------------------- GetModels

\* RLock; the keys of i.models; the deferred RUnlock
getModels(p, mu) ==
    /\ op' = [op EXCEPT ![p] = "GetModels"]
    /\ UNCHANGED initCreates
    /\ listed' = [listed EXCEPT ![p] = {k \in Keys : models[k] # 0}]
    /\ result' = [result EXCEPT ![p] = "ok"]
    /\ mutex' = RUnlock(mu, p)
    /\ pc' = [pc EXCEPT ![p] = "ret"]
    /\ UNCHANGED <<models, heap, disk, userModelPath, rankVars, scanIdx, model, m,
                   incs, decs, ran, view>>

\* GetModels as one step
GetModels(p) ==
    /\ pc[p] = "idle" /\ pc[Main] = "serving"
    /\ CanRLock(mutex)
    /\ getModels(p, RLock(mutex, p))

\* ------------------------------------------- the lease both readers take

\* RLock; m := i.getModel(model); RUnlock; if m == nil { return ... }
lease(p, n, next, missing, mu) ==
    /\ op' = [op EXCEPT ![p] = IF next = "desc_read" THEN "GetModel" ELSE "Infer"]
    /\ UNCHANGED initCreates
    /\ model' = [model EXCEPT ![p] = n]
    /\ IF models[n] = 0
       THEN /\ result' = [result EXCEPT ![p] = missing]
            /\ pc' = [pc EXCEPT ![p] = "ret"]
            /\ UNCHANGED <<heap, m, incs, decs>>
       ELSE /\ heap' = [heap EXCEPT ![models[n]] = getModel(@)]
            /\ Tally(p, heap[models[n]].refCount,
                        getModel(heap[models[n]]).refCount)
            /\ m' = [m EXCEPT ![p] = models[n]]
            /\ pc' = [pc EXCEPT ![p] = next]
            /\ UNCHANGED result
    /\ mutex' = RUnlock(mu, p)
    /\ UNCHANGED <<models, disk, userModelPath, rankVars, scanIdx, ran, view,
                   listed>>

\* the lease as one step
Lease(p, n, next, missing) ==
    /\ pc[p] = "idle" /\ pc[Main] = "serving"
    /\ CanRLock(mutex)
    /\ lease(p, n, next, missing, RLock(mutex, p))

\* the deferred i.putModel(m) and the return
Release(p, at) ==
    /\ UNCHANGED <<op, initCreates>>
    /\ pc[p] = at
    /\ m' = [m EXCEPT ![p] = 0]
    /\ heap' = collect([heap EXCEPT ![m[p]] = putModel(@)], models, m')
    /\ Tally(p, heap[m[p]].refCount, putModel(heap[m[p]]).refCount)
    /\ pc' = [pc EXCEPT ![p] = "ret"]
    /\ UNCHANGED <<models, disk, mutex, userModelPath, rankVars, scanIdx, model,
                   result, ran, view, listed>>

\* ---------------------------------------------------------------- GetModel

DescribeLease(p, n) == Lease(p, n, "desc_read", "nil")

statusLabel(st) == IF st = modelStatusReady THEN "ready"
                   ELSE IF st = modelStatusRun THEN "run" ELSE "unknown"

\* switch m.status, and the map built from m's fields
DescribeRead(p) ==
    /\ UNCHANGED <<op, initCreates>>
    /\ pc[p] = "desc_read"
    /\ view' = [view EXCEPT ![p] =
                  [status |-> statusLabel(heap[m[p]].status),
                   classification |-> heap[m[p]].cfg.cls,
                   inputShape |-> heap[m[p]].tfModel,
                   nrLables |-> heap[m[p]].labels]]
    /\ result' = [result EXCEPT ![p] = "ok"]
    /\ pc' = [pc EXCEPT ![p] = "desc_put"]
    /\ UNCHANGED <<models, heap, disk, mutex, userModelPath, rankVars, scanIdx, model, m,
                   incs, decs, ran, listed>>

DescribePut(p) == Release(p, "desc_put")

\* ------------------------------------------------------------------- Infer

InferLease(p, n) == Lease(p, n, "inf_status", "NotFound")

\* Infer without its "Not ready yet" check
inferReadyAlways(r) == TRUE
\* the status Infer requires before it runs the engine
inferReady(r) == r.status = modelStatusRun

\* if m.status != modelStatusRun { return nil, "Not ready yet" }
InferStatus(p) ==
    /\ UNCHANGED <<op, initCreates>>
    /\ pc[p] = "inf_status"
    /\ IF inferReady(heap[m[p]])
       THEN /\ pc' = [pc EXCEPT ![p] = "inf_engine"]
            /\ UNCHANGED result
       ELSE /\ pc' = [pc EXCEPT ![p] = "inf_put"]
            /\ result' = [result EXCEPT ![p] = "NotReady"]
    /\ UNCHANGED <<models, heap, disk, mutex, userModelPath, rankVars, scanIdx, model, m,
                   incs, decs, ran, view, listed>>

\* m.infer(image, format) and the choice of the ranking
InferEngine(p, engineOk) ==
    /\ UNCHANGED <<op, initCreates>>
    /\ pc[p] = "inf_engine"
    /\ ran' = [ran EXCEPT ![p] = TRUE]
    /\ result' = [result EXCEPT ![p] =
           IF ~engineOk THEN "EngineError"
           ELSE IF heap[m[p]].cfg.cls = binaryClass THEN "ok"
           ELSE IF heap[m[p]].cfg.cls = multiClass THEN "ok"
           ELSE "UnknownClassification"]
    /\ pc' = [pc EXCEPT ![p] = "inf_put"]
    /\ UNCHANGED <<models, heap, disk, mutex, userModelPath, rankVars, scanIdx, model, m,
                   incs, decs, view, listed>>

InferPut(p) == Release(p, "inf_put")

\* ---------------------------------------------------------------- the rest

\* the method has returned to its caller; the thread takes the next request
Return(p) ==
    /\ op' = [op EXCEPT ![p] = ""]
    /\ UNCHANGED initCreates
    /\ p # Main
    /\ pc[p] = "ret"
    /\ pc' = [pc EXCEPT ![p] = "idle"]
    /\ model' = [model EXCEPT ![p] = ""]
    /\ result' = [result EXCEPT ![p] = ""]
    /\ incs' = [incs EXCEPT ![p] = 0]
    /\ decs' = [decs EXCEPT ![p] = 0]
    /\ ran' = [ran EXCEPT ![p] = FALSE]
    /\ view' = [view EXCEPT ![p] = NoView]
    /\ listed' = [listed EXCEPT ![p] = {}]
    /\ UNCHANGED <<models, heap, disk, mutex, userModelPath, rankVars, scanIdx, m>>

AllContents == {Absent, Bad} \cup Configs

Next ==
    \/ \E c \in AllContents, rmOk \in BOOLEAN : ScanDir(c, rmOk)
    \/ \E c \in AllContents : ScanUser(c)
    \/ InitLoaded
    \/ InitReturn
    \/ \E p \in Procs, n \in Keys, s \in Uuids : CreateCall(p, n, s)
    \/ \E p \in Procs, outcome \in {"ok", "TransportError", "DecodeError"},
          wrote \in BOOLEAN : CreatePost(p, outcome, wrote)
    \/ \E p \in Procs, c \in AllContents : CreateLoad(p, c)
    \/ \E p \in Procs : CreateRelease(p)
    \/ \E p \in Procs, rmOk \in BOOLEAN : CreateRollback(p, rmOk)
    \/ \E p \in Threads, n \in Names, rmOk \in BOOLEAN : DeleteModel(p, n, rmOk)
    \/ \E p \in Threads : GetModels(p)
    \/ \E p \in Threads, n \in Names : DescribeLease(p, n)
    \/ \E p \in Threads : DescribeRead(p)
    \/ \E p \in Threads : DescribePut(p)
    \/ \E p \in Threads, n \in Names : InferLease(p, n)
    \/ \E p \in Threads : InferStatus(p)
    \/ \E p \in Threads, engineOk \in BOOLEAN : InferEngine(p, engineOk)
    \/ \E p \in Threads : InferPut(p)
    \/ \E p \in Threads : Return(p)

Spec == Init /\ [][Next]_vars

\* ------------------------------- loadModel and GetModel, field by field

\* loadModel(m) up to its first assignment: what it read is in locals, then
\* m.cfg = cfg; m.name = cfg.Name
CreateLoadCfg(p, c) ==
    /\ UNCHANGED <<op, initCreates>>
    /\ pc[p] = "cr_load"
    /\ c \in DirContents(disk, heap[m[p]].modelPath)
    /\ IF loadModelFails(heap[m[p]], c)
       THEN /\ pc' = [pc EXCEPT ![p] = "cr_rb"]
            /\ result' = [result EXCEPT ![p] = "LoadFailure"]
            /\ heap' = [heap EXCEPT ![m[p]] = loadFailed(@, c)]
       ELSE /\ pc' = [pc EXCEPT ![p] = "ld_engine"]
            /\ heap' = [heap EXCEPT ![m[p]] = loadSetCfg(@, c)]
            /\ UNCHANGED result
    /\ UNCHANGED <<models, disk, mutex, userModelPath, rankVars, scanIdx,
                   model, m, incs, decs, ran, view, listed>>

\* one of the later assignments of loadModel
loadStep(p, at, loaded, next) ==
    /\ UNCHANGED <<op, initCreates>>
    /\ pc[p] = at
    /\ heap' = [heap EXCEPT ![m[p]] = loaded]
    /\ pc' = [pc EXCEPT ![p] = next]
    /\ UNCHANGED <<models, disk, mutex, userModelPath, rankVars, scanIdx,
                   model, m, result, incs, decs, ran, view, listed>>

\* m.tfModel = tfModel; m.inputShape = ...; m.imageDecoder = ...
CreateLoadEngine(p) ==
    loadStep(p, "ld_engine", loadSetEngine(heap[m[p]]), "ld_labels")
\* m.nrLables = len(labels); m.labels = labels
CreateLoadLabels(p) ==
    loadStep(p, "ld_labels", loadSetLabels(heap[m[p]]), "ld_status")
\* m.status = modelStatusRun; return nil
CreateLoadStatus(p) ==
    loadStep(p, "ld_status", loadSetStatus(heap[m[p]]), "cr_put")

\* one of the reads GetModel makes of the record it leased
describeStep(p, at, seen, next) ==
    /\ UNCHANGED <<op, initCreates>>
    /\ pc[p] = at
    /\ view' = [view EXCEPT ![p] = seen]
    /\ result' = [result EXCEPT ![p] = "ok"]
    /\ pc' = [pc EXCEPT ![p] = next]
    /\ UNCHANGED <<models, heap, disk, mutex, userModelPath, rankVars,
                   scanIdx, model, m, incs, decs, ran, listed>>

\* switch m.status { ... }
DescribeStatus(p) ==
    describeStep(p, "desc_read",
                 [NoView EXCEPT !.status = statusLabel(heap[m[p]].status)],
                 "desc_cfg")
\* "classification": m.cfg.Classification
DescribeCfg(p) ==
    describeStep(p, "desc_cfg",
                 [view[p] EXCEPT !.classification = heap[m[p]].cfg.cls],
                 "desc_shape")
\* "inputShape": m.inputShape, "numberOfLables": m.nrLables
DescribeShape(p) ==
    describeStep(p, "desc_shape",
                 [view[p] EXCEPT !.inputShape = heap[m[p]].tfModel,
                                 !.nrLables = heap[m[p]].labels],
                 "desc_put")

LoadNext ==
    \/ \E c \in AllContents, rmOk \in BOOLEAN : ScanDir(c, rmOk)
    \/ \E c \in AllContents : ScanUser(c)
    \/ InitLoaded
    \/ InitReturn
    \/ \E p \in Procs, n \in Keys, s \in Uuids : CreateCall(p, n, s)
    \/ \E p \in Procs, outcome \in {"ok", "TransportError", "DecodeError"},
          wrote \in BOOLEAN : CreatePost(p, outcome, wrote)
    \/ \E p \in Procs, c \in AllContents : CreateLoadCfg(p, c)
    \/ \E p \in Procs : CreateLoadEngine(p)
    \/ \E p \in Procs : CreateLoadLabels(p)
    \/ \E p \in Procs : CreateLoadStatus(p)
    \/ \E p \in Procs : CreateRelease(p)
    \/ \E p \in Procs, rmOk \in BOOLEAN : CreateRollback(p, rmOk)
    \/ \E p \in Threads, n \in Names, rmOk \in BOOLEAN : DeleteModel(p, n, rmOk)
    \/ \E p \in Threads : GetModels(p)
    \/ \E p \in Threads, n \in Names : DescribeLease(p, n)
    \/ \E p \in Threads : DescribeStatus(p)
    \/ \E p \in Threads : DescribeCfg(p)
    \/ \E p \in Threads : DescribeShape(p)
    \/ \E p \in Threads : DescribePut(p)
    \/ \E p \in Threads, n \in Names : InferLease(p, n)
    \/ \E p \in Threads : InferStatus(p)
    \/ \E p \in Threads, engineOk \in BOOLEAN : InferEngine(p, engineOk)
    \/ \E p \in Threads : InferPut(p)
    \/ \E p \in Threads : Return(p)

LoadSpec == Init /\ [][LoadNext]_vars

\* ------------------------------------- i.mutex taken and given back in steps

\* the call is made and the lock it starts with is taken: mu is i.mutex after
\* Lock() or RLock()
acquire(p, method, n, at, mu) ==
    /\ op' = [op EXCEPT ![p] = method]
    /\ model' = [model EXCEPT ![p] = n]
    /\ mutex' = mu
    /\ pc' = [pc EXCEPT ![p] = at]
    /\ UNCHANGED <<models, heap, disk, userModelPath, rankVars, scanIdx, m,
                   result, incs, decs, ran, view, listed>>

\* CreateModel: m := getNewModel(...); i.mutex.Lock()
CreateLock(p, n) ==
    /\ initCreates' = IF p = Main THEN initCreates + 1 ELSE initCreates
    /\ MayCreate(p, n)
    /\ CanLock(mutex)
    /\ acquire(p, "Create", n, "cr_locked", Lock(mutex, p))

\* CreateModel: addModel(m); getModel(newModel); Unlock()
CreateReserve(p, s) ==
    /\ UNCHANGED initCreates
    /\ pc[p] = "cr_locked"
    /\ createReserve(p, model[p], s, mutex)

\* a failure path of CreateModel: i.mutex.Lock()
RollbackLock(p) ==
    /\ UNCHANGED initCreates
    /\ pc[p] = "cr_rb"
    /\ CanLock(mutex)
    /\ acquire(p, op[p], model[p], "rb_locked", Lock(mutex, p))

\* i.delModelUncond(m); i.mutex.Unlock(); return nil, err
RollbackLocked(p, rmOk) == createRollback(p, rmOk, "rb_locked", mutex)

\* DeleteModel: i.mutex.Lock()
DeleteLock(p, n) ==
    /\ UNCHANGED initCreates
    /\ pc[p] = "idle" /\ pc[Main] = "serving"
    /\ CanLock(mutex)
    /\ acquire(p, "Delete", n, "del_locked", Lock(mutex, p))

\* return i.delModel(model), and the deferred Unlock
DeleteLocked(p, rmOk) ==
    /\ pc[p] = "del_locked"
    /\ deleteModel(p, model[p], rmOk, mutex)

\* GetModels: i.mutex.RLock()
GetModelsRLock(p) ==
    /\ UNCHANGED initCreates
    /\ pc[p] = "idle" /\ pc[Main] = "serving"
    /\ CanRLock(mutex)
    /\ acquire(p, "GetModels", "", "list_locked", RLock(mutex, p))

\* the loop over i.models, and the deferred RUnlock
GetModelsLocked(p) ==
    /\ pc[p] = "list_locked"
    /\ getModels(p, mutex)

\* GetModel or Infer: i.mutex.RLock()
LeaseRLock(p, method, n) ==
    /\ UNCHANGED initCreates
    /\ pc[p] = "idle" /\ pc[Main] = "serving"
    /\ CanRLock(mutex)
    /\ acquire(p, method, n, "lease_locked", RLock(mutex, p))

\* m := i.getModel(model); i.mutex.RUnlock(); if m == nil { return ... }
LeaseLocked(p) ==
    /\ pc[p] = "lease_locked"
    /\ IF op[p] = "GetModel"
       THEN lease(p, model[p], "desc_read", "nil", mutex)
       ELSE lease(p, model[p], "inf_status", "NotFound", mutex)

LockNext ==
    \/ \E c \in AllContents, rmOk \in BOOLEAN : ScanDir(c, rmOk)
    \/ \E c \in AllContents : ScanUser(c)
    \/ InitLoaded
    \/ InitReturn
    \/ \E p \in Procs, n \in Keys : CreateLock(p, n)
    \/ \E p \in Procs, s \in Uuids : CreateReserve(p, s)
    \/ \E p \in Procs, outcome \in {"ok", "TransportError", "DecodeError"},
          wrote \in BOOLEAN : CreatePost(p, outcome, wrote)
    \/ \E p \in Procs, c \in AllContents : CreateLoad(p, c)
    \/ \E p \in Procs : CreateRelease(p)
    \/ \E p \in Procs : RollbackLock(p)
    \/ \E p \in Procs, rmOk \in BOOLEAN : RollbackLocked(p, rmOk)
    \/ \E p \in Threads, n \in Names : DeleteLock(p, n)
    \/ \E p \in Threads, rmOk \in BOOLEAN : DeleteLocked(p, rmOk)
    \/ \E p \in Threads : GetModelsRLock(p)
    \/ \E p \in Threads : GetModelsLocked(p)
    \/ \E p \in Threads, n \in Names : LeaseRLock(p, "GetModel", n)
    \/ \E p \in Threads, n \in Names : LeaseRLock(p, "Infer", n)
    \/ \E p \in Threads : LeaseLocked(p)
    \/ \E p \in Threads : DescribeRead(p)
    \/ \E p \in Threads : DescribePut(p)
    \/ \E p \in Threads : InferStatus(p)
    \/ \E p \in Threads, engineOk \in BOOLEAN : InferEngine(p, engineOk)
    \/ \E p \in Threads : InferPut(p)
    \/ \E p \in Threads : Return(p)

LockSpec == Init /\ [][LockNext]_vars

\* --------------------------- calls that wait for i.mutex, and the scheduler

\* the thread whose trainer may never answer
Stuck == "t1"

Methods == {"Create", "Delete", "GetModels", "GetModel", "Infer"}

\* a request thread calls a public method; it has yet to take the lock.
\* The thread Stuck is the one that creates models
Call(p, method, n) ==
    /\ UNCHANGED initCreates
    /\ pc[p] = "idle" /\ pc[Main] = "serving"
    /\ p = Stuck => method = "Create"
    /\ IF method = "GetModels" THEN n = ""
       ELSE IF method = "Create" THEN n \in Keys ELSE n \in Names
    /\ acquire(p, method, n, "call", mutex)

\* i.mutex.Lock() of CreateModel and of DeleteModel
CalledLock(p) ==
    /\ UNCHANGED initCreates
    /\ pc[p] = "call" /\ op[p] \in {"Create", "Delete"}
    /\ CanLock(mutex)
    /\ acquire(p, op[p], model[p],
               IF op[p] = "Create" THEN "cr_locked" ELSE "del_locked",
               Lock(mutex, p))

\* i.mutex.RLock() of GetModels, GetModel and Infer
CalledRLock(p) ==
    /\ UNCHANGED initCreates
    /\ pc[p] = "call" /\ op[p] \in {"GetModels", "GetModel", "Infer"}
    /\ CanRLock(mutex)
    /\ acquire(p, op[p], model[p],
               IF op[p] = "GetModels" THEN "list_locked" ELSE "lease_locked",
               RLock(mutex, p))

\* the steps of p that wait for i.mutex
LockStep(p) == CalledLock(p) \/ CalledRLock(p) \/ RollbackLock(p)

\* the steps of p that wait for nothing but the scheduler
RunStep(p) ==
    \/ \E s \in Uuids : CreateReserve(p, s)
    \/ \E c \in AllContents : CreateLoad(p, c)
    \/ CreateRelease(p)
    \/ \E rmOk \in BOOLEAN : RollbackLocked(p, rmOk)
    \/ \E rmOk \in BOOLEAN : DeleteLocked(p, rmOk)
    \/ GetModelsLocked(p)
    \/ LeaseLocked(p)
    \/ DescribeRead(p)
    \/ DescribePut(p)
    \/ InferStatus(p)
    \/ \E engineOk \in BOOLEAN : InferEngine(p, engineOk)
    \/ InferPut(p)

\* the trainer answers p's request, or the connection fails
TrainerStep(p) ==
    \E outcome \in {"ok", "TransportError", "DecodeError"}, wrote \in BOOLEAN :
        CreatePost(p, outcome, wrote)

LiveNext ==
    \/ \E c \in AllContents, rmOk \in BOOLEAN : ScanDir(c, rmOk)
    \/ \E c \in AllContents : ScanUser(c)
    \/ InitLoaded
    \/ InitReturn
    \/ CreateLock(Main, "default")
    \/ \E p \in Threads, method \in Methods, n \in Keys : Call(p, method, n)
    \/ \E p \in Procs : LockStep(p)
    \/ \E p \in Procs : RunStep(p)
    \/ \E p \in Procs : TrainerStep(p)
    \/ \E p \in Threads : Return(p)

\* a registry made without a user model path; the scheduler runs every
\* goroutine that can run, sync.RWMutex hands the lock to every goroutine
\* that waits for it, and every trainer request but those of the thread
\* Stuck is answered
LiveInit == Init /\ userModelPath = NoPath

LiveSpec ==
    /\ LiveInit
    /\ [][LiveNext]_vars
    /\ \A p \in Procs : WF_vars(RunStep(p))
    /\ \A p \in Procs : SF_vars(LockStep(p))
    /\ \A p \in Procs \ {Stuck} : WF_vars(TrainerStep(p))

\* ------------------------------------------- a loadModel that panics

\* loadModel(m) on a config.yaml that names the model and lists fewer than
\* two input_shape entries: m.cfg, m.name and m.tfModel are assigned, then
\* cfg.InputShape[:2] panics and the panic leaves CreateModel, which has no
\* recover: the placeholder keeps its entry, its lease and the status Ready
CreateLoadPanics(p) ==
    /\ UNCHANGED <<op, initCreates>>
    /\ pc[p] = "cr_load"
    /\ disk[heap[m[p]].modelPath]
    /\ heap' = [heap EXCEPT ![m[p]] =
                  [loadSetCfg(@, Cfg(heap[m[p]].name, multiClass))
                     EXCEPT !.tfModel = TRUE]]
    /\ result' = [result EXCEPT ![p] = "panic"]
    /\ pc' = [pc EXCEPT ![p] = "panicked"]
    /\ UNCHANGED <<models, disk, mutex, userModelPath, rankVars, scanIdx,
                   model, m, incs, decs, ran, view, listed>>

\* the HTTP server recovers the panic of a request and serves the next one
Recovered(p) ==
    /\ op' = [op EXCEPT ![p] = ""]
    /\ UNCHANGED initCreates
    /\ p # Main
    /\ pc[p] = "panicked"
    /\ pc' = [pc EXCEPT ![p] = "idle"]
    /\ model' = [model EXCEPT ![p] = ""]
    /\ result' = [result EXCEPT ![p] = ""]
    /\ incs' = [incs EXCEPT ![p] = 0]
    /\ decs' = [decs EXCEPT ![p] = 0]
    /\ m' = [m EXCEPT ![p] = 0]
    /\ heap' = collect(heap, models, m')
    /\ UNCHANGED <<models, disk, mutex, userModelPath, rankVars, scanIdx,
                   ran, view, listed>>

PanicNext ==
    \/ Next
    \/ \E p \in Procs : CreateLoadPanics(p)
    \/ \E p \in Threads : Recovered(p)

PanicSpec == Init /\ [][PanicNext]_vars

\* ---------------------------------------------- the ranking on its own

\* score vectors and labels files of up to MaxLen entries; label i is i
ScoreSeqs == UNION {[1..n -> Scores] : n \in 0..MaxLen}
LabelSeqs == {[i \in 1..n |-> i] : n \in 0..MaxLen}
Ks == -1..(MaxLen + 1)

\* the registry as New leaves it for an empty models directory, before init
RankInit ==
    /\ models = [key \in Keys |-> 0]
    /\ heap = [i \in 1..MaxRecs |-> Free]
    /\ userModelPath = NoPath
    /\ disk = [p \in Paths |-> FALSE]
    /\ mutex = [w |-> "none", r |-> {}]
    /\ scanIdx = 1
    /\ pc = [p \in Procs |-> IF p = Main THEN "scan" ELSE "idle"]
    /\ op = [p \in Procs |-> ""]
    /\ initCreates = 0
    /\ model = [p \in Procs |-> ""]
    /\ m = [p \in Procs |-> 0]
    /\ result = [p \in Procs |-> ""]
    /\ incs = [p \in Procs |-> 0]
    /\ decs = [p \in Procs |-> 0]
    /\ ran = [p \in Procs |-> FALSE]
    /\ view = [p \in Procs |-> NoView]
    /\ listed = [p \in Procs |-> {}]
    /\ probs \in ScoreSeqs /\ labels \in LabelSeqs /\ topK \in Ks
    /\ infers = NoInfers /\ rpc = "start"

registry == <<models, heap, disk, mutex, userModelPath, scanIdx, pc, locals>>

\* return classifyMulti(result, m.labels, k)
ClassifyMulti ==
    /\ rpc = "start"
    /\ infers' = classifyMulti(probs, labels, topK)
    /\ rpc' = "multi"
    /\ UNCHANGED <<registry, probs, labels, topK>>

\* return classifyBinary(result[0], m.labels)
ClassifyBinary ==
    /\ rpc = "start"
    /\ infers' = IF Len(probs) = 0 THEN Panic
                 ELSE classifyBinary(probs[1], labels)
    /\ rpc' = "binary"
    /\ UNCHANGED <<registry, probs, labels, topK>>

\* the simplified Infer past m.infer
SimpleInfer ==
    /\ rpc = "start"
    /\ infers' = simpleInfer(probs, labels, topK)
    /\ rpc' = "simple"
    /\ UNCHANGED <<registry, probs, labels, topK>>

RankNext == ClassifyMulti \/ ClassifyBinary \/ SimpleInfer

RankSpec == RankInit /\ [][RankNext]_vars

\* ------------------------------------------------------------------ types

TypeOK ==
    /\ models \in [Keys -> 0..MaxRecs]
    /\ \A id \in 1..MaxRecs : heap[id].modelPath \in Paths \cup {NoPath}
    /\ disk \in [Paths -> BOOLEAN]
    /\ mutex.w \in Procs \cup {"none"} /\ mutex.r \subseteq Procs
    /\ scanIdx \in 1..(Len(ScanOrder) + 1)

\* ----------------------------------------------------------------- claims

\* CreateModel has reserved its slot and has neither returned nor rolled back
InFlight(p) == pc[p] \in {"cr_post", "cr_load", "cr_put", "cr_rb"}

\* process p takes the step that runs delModel
DeleteStep(p) == pc[p] = "idle" /\ pc'[p] = "ret" /\ op'[p] = "Delete"

\* process p takes the step that ends a rollback of CreateModel
RollbackStep(p) == pc[p] = "cr_rb" /\ pc'[p] = "ret"

ConflictErrors == {"DuplicatedModel", "DuplicatedPath"}

\* C1: no step removes a record from the catalog, or deletes the directory
\* behind it, while the record's refCount is greater than 0
C1_NoRemovalWhileReferenced ==
    [][\A k \in Keys :
         (models[k] # 0 /\ heap[models[k]].refCount > 0)
           => /\ models'[k] = models[k]
              /\ disk[heap[models[k]].modelPath]
                   => disk'[heap[models[k]].modelPath]]_vars

\* C2 as stated: delModel on a present record answers Busy and changes
\* nothing when refCount > 0, removes directory and entry when refCount = 0,
\* answers NotFound on an absent name, and never removes a leased record
C2_DeleteAsStated ==
    [][\A p \in Threads : DeleteStep(p) =>
         LET n == model'[p]
             id == models[n]
         IN /\ id = 0 => result'[p] = "NotFound" /\ models' = models
                                                  /\ disk' = disk
            /\ (id # 0 /\ heap[id].refCount > 0)
                 => result'[p] = "Busy" /\ models' = models /\ disk' = disk
            /\ (id # 0 /\ heap[id].refCount = 0)
                 => /\ result'[p] = "ok"
                    /\ models'[n] = 0
                    /\ ~disk'[heap[id].modelPath]
            /\ \A k \in Keys :
                 (models[k] # 0 /\ heap[models[k]].refCount > 0)
                   => models'[k] = models[k]]_vars

\* C2 amended: as stated, except that with refCount = 0 the call either
\* removes directory and entry, or - when os.RemoveAll fails - returns that
\* error and leaves both the directory and the entry in place
C2_Delete ==
    [][\A p \in Threads : DeleteStep(p) =>
         LET n == model'[p]
             id == models[n]
         IN /\ id = 0 => result'[p] = "NotFound" /\ models' = models
                                                  /\ disk' = disk
            /\ (id # 0 /\ heap[id].refCount > 0)
                 => result'[p] = "Busy" /\ models' = models /\ disk' = disk
            /\ (id # 0 /\ heap[id].refCount = 0)
                 => \/ /\ result'[p] = "ok"
                       /\ models' = [models EXCEPT ![n] = 0]
                       /\ disk' = [disk EXCEPT ![heap[id].modelPath] = FALSE]
                    \/ /\ result'[p] = "RemoveError"
                       /\ models' = models
                       /\ disk' = disk
            /\ \A k \in Keys :
                 (models[k] # 0 /\ heap[models[k]].refCount > 0)
                   => models'[k] = models[k]]_vars

\* a Delete was refused because an Infer or GetModel call holds the record
C2_Witness ==
    \E p \in Threads, q \in Threads :
        /\ op[p] = "Delete" /\ pc[p] = "ret" /\ result[p] = "Busy"
        /\ pc[q] \in {"inf_status", "inf_engine", "inf_put", "desc_read",
                      "desc_put"}
        /\ model[q] = model[p]

\* C3: no two catalog entries share a name or a path; of the CreateModel
\* calls for one name at most one is past the reservation, and a call that
\* meets a reserved name returns a duplicate error
C3_Unique ==
    /\ [](/\ \A k1 \in Keys, k2 \in Keys :
               (k1 # k2 /\ models[k1] # 0 /\ models[k2] # 0)
                 => /\ models[k1] # models[k2]
                    /\ heap[models[k1]].name # heap[models[k2]].name
                    /\ heap[models[k1]].modelPath # heap[models[k2]].modelPath
          /\ \A p \in Procs, q \in Procs :
               (p # q /\ InFlight(p) /\ InFlight(q)) => model[p] # model[q])
    /\ [][\A p \in Procs, q \in Procs :
            (p # q /\ InFlight(q) /\ pc[p] = "idle" /\ op'[p] = "Create"
               /\ model'[p] = model[q])
              => pc'[p] = "ret" /\ result'[p] \in ConflictErrors
                 /\ models' = models]_vars

\* a CreateModel call met the name another call had reserved
C3_Witness ==
    \E p \in Procs, q \in Procs :
        /\ p # q /\ InFlight(q)
        /\ op[p] = "Create" /\ pc[p] = "ret" /\ model[p] = model[q]
        /\ result[p] \in ConflictErrors

\* C4 as stated: when a rollback of CreateModel ends, the catalog has no
\* record under the attempted name and the computed path does not exist
C4_RollbackAsStated ==
    [][\A p \in Procs : RollbackStep(p) =>
         /\ models'[model[p]] = 0
         /\ ~disk'[heap[m[p]].modelPath]]_vars

\* C4 amended: when a rollback of CreateModel ends, the catalog has no record
\* under the attempted name, and the computed path does not exist unless
\* os.RemoveAll failed (the failure is logged and the directory stays)
C4_Rollback ==
    [][\A p \in Procs : RollbackStep(p) =>
         /\ models'[model[p]] = 0
         /\ \/ disk' = [disk EXCEPT ![heap[m[p]].modelPath] = FALSE]
            \/ disk' = disk]_vars

\* a CreateModel call returned an error after it had reserved its slot
C4_Witness ==
    \E p \in Procs :
        /\ op[p] = "Create" /\ pc[p] = "ret" /\ incs[p] = 1
        /\ result[p] \in {"TransportError", "DecodeError", "LoadFailure"}
        /\ models[model[p]] = 0
        /\ \A u \in Uuids : ~disk[ModelPath(model[p], u)]

\* C5: while a CreateModel call is between its reservation and its return
\* or the end of its rollback, the placeholder stays in the catalog and a
\* DeleteModel of that name answers Busy and changes nothing
C5_SlotProtected ==
    /\ [](\A p \in Procs :
            InFlight(p) => m[p] # 0 /\ models[model[p]] = m[p])
    /\ [][\A p \in Procs, q \in Threads :
            (InFlight(p) /\ DeleteStep(q) /\ model'[q] = model[p])
              => result'[q] = "Busy" /\ models' = models /\ disk' = disk]_vars

\* a DeleteModel was refused while the CreateModel of that name was running
C5_Witness ==
    \E p \in Procs, q \in Threads :
        /\ InFlight(p)
        /\ op[q] = "Delete" /\ pc[q] = "ret" /\ model[q] = model[p]
        /\ result[q] = "Busy"

\* C6: a completed Infer call has added 1 to the refCount of its model and
\* subtracted 1 from it, on every exit path, or has done neither when the
\* model was absent
C6_InferPaired ==
    \A p \in Threads :
        (op[p] = "Infer" /\ pc[p] = "ret")
          => /\ result[p] \in {"NotFound", "NotReady", "EngineError",
                               "UnknownClassification", "ok"}
             /\ incs[p] = (IF result[p] = "NotFound" THEN 0 ELSE 1)
             /\ decs[p] = incs[p]

\* an Infer call returned through the unknown-classification exit
C6_Witness ==
    \E p \in Threads :
        /\ op[p] = "Infer" /\ pc[p] = "ret"
        /\ result[p] = "UnknownClassification"
        /\ incs[p] = 1 /\ decs[p] = 1

\* C7: the refCount of every record is at least 0 in every reachable state
C7_RefCountNonNegative ==
    \A id \in 1..MaxRecs : heap[id].refCount >= 0

\* two calls held the same record and one of them has given it back
C7_Witness ==
    \E p \in Threads, q \in Threads :
        /\ p # q
        /\ pc[p] = "ret" /\ op[p] \in {"Infer", "GetModel"} /\ decs[p] = 1
        /\ m[q] # 0 /\ models[model[p]] = m[q] /\ heap[m[q]].refCount = 1

\* C8: the scan of the models directory neither inserts a candidate whose
\* load failed nor deletes its directory: while loadModels runs, a step that
\* inserts nothing leaves every directory in place
C8_ScanKeepsDirectory ==
    [][(pc[Main] = "scan" /\ models' = models) => disk' = disk]_vars

\* C9: init with nothing loaded calls CreateModel("default") exactly once;
\* if that call succeeds the catalog is exactly {"default"} with status
\* Running; New fails only if that call failed, and a New that succeeds
\* leaves a non-empty catalog
C9_Initialize ==
    /\ [](/\ initCreates <= 1
          /\ (pc[Main] \in {"cr_post", "cr_load", "cr_put", "cr_rb", "ret"})
               => initCreates = 1 /\ op[Main] = "Create"
                  /\ model[Main] = "default"
          /\ (pc[Main] = "ret" /\ result[Main] = "ok")
               => /\ {k \in Keys : models[k] # 0} = {"default"}
                  /\ heap[models["default"]].name = "default"
                  /\ heap[models["default"]].status = modelStatusRun)
    /\ [][/\ (pc[Main] = "init" /\ lenModels(models) = 0)
               => initCreates' = 1 /\ op'[Main] = "Create"
          /\ (pc[Main] # "failed" /\ pc'[Main] = "failed")
               => op[Main] = "Create" /\ result[Main] # "ok"
          /\ (pc[Main] # "serving" /\ pc'[Main] = "serving")
               => /\ lenModels(models') > 0
                  /\ initCreates = 1 => result[Main] = "ok"]_vars

\* init created the default model and is about to return nil
C9_Witness ==
    /\ pc[Main] = "ret" /\ result[Main] = "ok" /\ initCreates = 1
    /\ models["default"] # 0

\* C10: Infer answers NotFound for an absent name and NotReady for a record
\* whose status is not Running, in both cases without running the engine;
\* the engine only runs on a record whose status is Running
C10_EngineOnlyOnRunning ==
    /\ [](\A p \in Threads :
            /\ pc[p] = "inf_engine" => heap[m[p]].status = modelStatusRun
            /\ (ran[p] /\ pc[p] = "inf_put")
                 => heap[m[p]].status = modelStatusRun
            /\ result[p] \in {"NotFound", "NotReady"} => ~ran[p])
    /\ [][\A p \in Threads :
            /\ (pc[p] = "idle" /\ op'[p] = "Infer" /\ models[model'[p]] = 0)
                 => pc'[p] = "ret" /\ result'[p] = "NotFound"
            /\ (pc[p] = "inf_status" /\ pc'[p] # "inf_status"
                  /\ heap[m[p]].status # modelStatusRun)
                 => pc'[p] = "inf_put" /\ result'[p] = "NotReady"]_vars

\* an Infer call met the placeholder of a running CreateModel: NotReady
C10_Witness ==
    \E p \in Threads, q \in Procs :
        /\ op[p] = "Infer" /\ pc[p] = "inf_put" /\ result[p] = "NotReady"
        /\ InFlight(q) /\ m[q] = m[p] /\ ~ran[p]

\* C11: classifyMulti never fails; it returns min(k', n) entries, where n is
\* min(|scores|, |labels|) and k' is 5 for k <= 0 and k otherwise; every
\* entry is score i with label i for some i <= n, no pair is returned twice,
\* the scores do not increase, and no pair left out beats a returned one
C11_MultiRanking ==
    rpc = "multi" =>
      LET n == IF Len(probs) < Len(labels) THEN Len(probs) ELSE Len(labels)
          kk == IF topK <= 0 THEN 5 ELSE topK
          out == infers.infers
      IN /\ infers.err = ""
         /\ Len(out) = (IF kk < n THEN kk ELSE n)
         /\ \A j \in 1..Len(out) :
              \E i \in 1..n : out[j] = InferLabel(probs[i], labels[i])
         /\ \A j1 \in 1..Len(out), j2 \in 1..Len(out) :
              j1 # j2 => out[j1].Label # out[j2].Label
         /\ \A j \in 1..(Len(out) - 1) : out[j].Prob >= out[j + 1].Prob
         /\ \A i \in 1..n :
              (\A j \in 1..Len(out) : out[j].Label # labels[i])
                => \A j \in 1..Len(out) : probs[i] <= out[j].Prob

\* classifyMulti was asked for more entries than it ranked, on a score
\* vector longer than the labels and holding a tie
C11_Witness ==
    /\ rpc = "multi" /\ topK > Len(infers.infers)
    /\ Len(probs) > Len(labels) /\ Len(labels) >= 3
    /\ probs[1] = probs[3] /\ probs[2] > probs[1]
    /\ infers.infers[1].Label = labels[2]

\* C12: classifyBinary on labels of two or more entries returns one entry,
\* with the probability as its score and labels[1] as its label when the
\* probability is at least 0.5, labels[0] otherwise
C12_BinaryRanking ==
    (rpc = "binary" /\ Len(probs) >= 1 /\ Len(labels) >= 2) =>
      /\ infers.err = ""
      /\ Len(infers.infers) = 1
      /\ infers.infers[1].Prob = probs[1]
      /\ infers.infers[1].Label =
           (IF probs[1] >= 5 THEN labels[2] ELSE labels[1])

\* classifyBinary ran on the probability 0.5 and answered the second label
C12_Witness ==
    /\ rpc = "binary" /\ Len(probs) >= 1 /\ Len(labels) >= 2
    /\ probs[1] = 5
    /\ infers.infers = <<InferLabel(5, labels[2])>>

\* C13: the Infer of the simplified implementation returns what the
\* multi-class ranking of the full implementation returns, for every score
\* vector, labels and k
C13_SimpleSameAsFull ==
    rpc = "simple" => infers = classifyMulti(probs, labels, topK)

\* C14: the projection a completed GetModel built never shows some of the
\* record's config, input shape and label count populated and others not,
\* nor a populated field next to the status "ready"
C14_NoMidMutationView ==
    \A p \in Threads :
        (op[p] = "GetModel" /\ pc[p] = "desc_put")
          => /\ (view[p].classification # "") <=> view[p].inputShape
             /\ view[p].inputShape <=> view[p].nrLables
             /\ view[p].status = "ready"
                  => /\ view[p].classification = ""
                     /\ ~view[p].inputShape
                     /\ ~view[p].nrLables

\* C15: a status is Ready or Running; a record with status Running has its
\* config, engine handle and labels; a CreateModel on its way to the
\* rollback holds a record with status Ready; and the status of a record
\* only ever changes from Ready to Running
C15_StatusOneWay ==
    /\ [](/\ \A id \in 1..MaxRecs :
               /\ heap[id].status \in {modelStatusReady, modelStatusRun}
               /\ heap[id].status = modelStatusRun
                    => /\ heap[id].cfg # NoCfg
                       /\ heap[id].tfModel
                       /\ heap[id].labels
          /\ \A p \in Procs :
               pc[p] = "cr_rb" => heap[m[p]].status = modelStatusReady)
    /\ [][\A id \in 1..MaxRecs :
            (heap[id] # Free /\ heap'[id] # Free
               /\ heap'[id].status # heap[id].status)
              => /\ heap[id].status = modelStatusReady
                 /\ heap'[id].status = modelStatusRun]_vars

\* loadModel has assigned everything but the status while another record
\* is Running, and a reader holds the record being loaded
C15_Witness ==
    \E p \in Threads, q \in Threads :
        /\ pc[p] = "ld_status" /\ heap[m[p]].labels
        /\ heap[m[p]].status = modelStatusReady
        /\ m[q] = m[p] /\ p # q
        /\ \E id \in 1..MaxRecs : heap[id].status = modelStatusRun

\* C16: a process that awaits the trainer, runs loadModel inside CreateModel
\* or runs the engine holds i.mutex neither for writing nor for reading; the
\* write lock is held only around addModel/getModel, delModelUncond and
\* delModel, the read lock only around getModel and the listing of the keys
C16_NoLockAcrossExternalCalls ==
    \A p \in Procs :
        /\ pc[p] \in {"cr_post", "cr_load", "inf_engine"}
             => mutex.w # p /\ p \notin mutex.r
        /\ mutex.w = p => pc[p] \in {"cr_locked", "rb_locked", "del_locked"}
        /\ p \in mutex.r => pc[p] \in {"lease_locked", "list_locked"}

\* one thread awaits the trainer while the other holds the write lock
C16_Witness ==
    \E p \in Threads, q \in Threads :
        /\ pc[p] = "cr_post" /\ mutex.w = q /\ pc[q] = "del_locked"

\* C17: every call a request thread other than Stuck has made returns,
\* whether or not the trainer ever answers the CreateModel calls of Stuck
C17_OthersComplete ==
    \A p \in Threads \ {Stuck} :
        (pc[p] \notin {"idle", "ret"}) ~> pc[p] = "ret"

\* a CreateModel of another name succeeded while the CreateModel of Stuck was
\* waiting for its trainer
C17_Witness ==
    \E p \in Threads :
        /\ pc[Stuck] = "cr_post" /\ p # Stuck
        /\ pc[p] = "ret" /\ op[p] = "Create" /\ result[p] = "ok"
        /\ model[p] # model[Stuck]

\* C18: a CreateModel call that returns from its reservation step returns an
\* addModel error and leaves the catalog, every record and every directory as
\* they were; a call with the empty name or with a name the catalog holds
\* returns there; and no call reaches the trainer but through a reservation
C18_FailedReservationFrame ==
    [][\A p \in Procs :
         (pc[p] \in {"idle", "init"} /\ op'[p] = "Create")
           => /\ pc'[p] \in {"ret", "cr_post"}
              /\ pc'[p] = "ret"
                   => /\ result'[p] \in {"EmptyName"} \cup ConflictErrors
                      /\ models' = models
                      /\ heap' = heap
                      /\ disk' = disk
              /\ (model'[p] = "" \/ models[model'[p]] # 0)
                   => pc'[p] = "ret"
              /\ pc'[p] = "cr_post"
                   => /\ models[model'[p]] = 0
                      /\ models'[model'[p]] = m'[p]]_vars

\* a CreateModel call was refused for its path while another thread held a
\* lease on a record
C18_Witness ==
    \E p \in Threads, q \in Threads :
        /\ op[p] = "Create" /\ pc[p] = "ret" /\ result[p] = "DuplicatedPath"
        /\ incs[p] = 0 /\ models[model[p]] = 0
        /\ p # q /\ m[q] # 0 /\ heap[m[q]].refCount > 0

\* C19: when New has returned and no thread is inside a method, every record
\* of the catalog has status Running and refCount 0
C19_QuiescentRunningIdle ==
    (pc[Main] = "serving" /\ \A p \in Threads : pc[p] = "idle")
      => \A key \in Keys :
           models[key] # 0
             => /\ heap[models[key]].status = modelStatusRun
                /\ heap[models[key]].refCount = 0

\* C20: the rollback of a CreateModel finds its own placeholder under the
\* attempted name, removes that entry and no other, deletes no directory but
\* the one it computed, and no other record of the catalog has that path
C20_RollbackOwnPlaceholder ==
    [][\A p \in Procs : RollbackStep(p) =>
         /\ models[model[p]] = m[p]
         /\ heap[m[p]].name = model[p]
         /\ models' = [models EXCEPT ![model[p]] = 0]
         /\ \A path \in Paths :
              path # heap[m[p]].modelPath => disk'[path] = disk[path]
         /\ \A key \in Keys :
              (models[key] # 0 /\ models[key] # m[p])
                => heap[models[key]].modelPath # heap[m[p]].modelPath]_vars

\* a CreateModel rolled back after the trainer wrote a config of another
\* name, while a model of that other name stays in the catalog
C20_Witness ==
    \E p \in Threads, key \in Names :
        /\ op[p] = "Create" /\ pc[p] = "ret" /\ result[p] = "LoadFailure"
        /\ key # model[p] /\ models[key] # 0 /\ models[model[p]] = 0
        /\ disk[heap[models[key]].modelPath]

\* C21: every entry of the catalog is keyed by the name field of the record
\* it maps to, whether the name came from the request or from config.yaml
C21_KeyIsRecordName ==
    \A key \in Keys : models[key] # 0 => heap[models[key]].name = key

\* the catalog holds a loaded record whose name loadModel took from the
\* config.yaml of the user model path, next to one CreateModel named and
\* loaded
C21_Witness ==
    \E scanned \in Names, created \in Names, p \in Threads :
        /\ scanned # created
        /\ op[p] = "Create" /\ pc[p] = "ret" /\ result[p] = "ok"
        /\ model[p] = created
        /\ models[scanned] # 0 /\ models[created] # 0
        /\ heap[models[scanned]].modelPath = UserPath
        /\ heap[models[scanned]].status = modelStatusRun
        /\ \E s \in Uuids :
              heap[models[created]].modelPath = ModelPath(created, s)
        /\ heap[models[created]].status = modelStatusRun
        /\ heap[models[created]].cfg.name = created

====
